---- MODULE Spec2Model ----
(***************************************************************************)
(* A model of the decorators of lastfm/decorators.py (cached_property,     *)
(* authenticate, depaginate, async_callback) and of the paginated          *)
(* Group.members of lastfm/group.py.                                       *)
(*                                                                         *)
(* Each decorator has its own variables and its own specification; the     *)
(* other decorators' variables stay at their idle value meanwhile.         *)
(***************************************************************************)
EXTENDS Integers, Sequences, FiniteSets, TLC

(***************************************************************************)
(* Bounds of the model.                                                    *)
(***************************************************************************)
MaxReads == 2
MaxMutations == 1

\* two Group instances and two of the cached attributes of group.py
Instances == {"g1", "g2"}
Attrs == {"weekly_chart_list", "members"}

(***************************************************************************)
(* Python values.  A value is None, an immutable atom, a reference to a    *)
(* heap object, or (only as the outcome of a call) a raised exception.     *)
(* Unset stands for "the instance has no such attribute".                  *)
(***************************************************************************)
Unset == [t |-> "unset", v |-> 0]
None == [t |-> "none", v |-> 0]
Atom(n) == [t |-> "atom", v |-> n]
Ref(addr) == [t |-> "ref", v |-> addr]
Raise(kind) == [t |-> "raise", v |-> kind]

\* the exception classes the wrapper tells apart at its except clause
LastfmError == 1
OtherError == 2

IsRaise(val) == val.t = "raise"
IsRef(val) == val.t = "ref"

\* A heap object: its items (a list's elements, an object's fields) and
\* what copy.copy does on it: "ok", or the exception class it raises.
Obj(items, cp) == [items |-> items, copy |-> cp]

VARIABLES
  heap,      \* the objects allocated so far; an address is an index
  slot,      \* slot[ob][a]: the instance attribute "_<func_name>" of ob
  calls,     \* calls[ob][a]: invocations of the getter func(ob)
  reads,     \* reads[ob][a]: reads of the property
  fails,     \* fails[ob][a]: invocations of the getter that raised
  last,      \* the last read: instance, attribute, what the reader got,
             \* whether the getter ran and what it gave
  muts       \* mutations the readers made on returned values

cacheVars == <<heap, slot, calls, reads, fails, last, muts>>

NoRead == [ob |-> "", a |-> "", out |-> Unset, ran |-> FALSE, got |-> Unset]

CacheInit ==
  /\ heap = <<>>
  /\ slot = [ob \in Instances |-> [a \in Attrs |-> Unset]]
  /\ calls = [ob \in Instances |-> [a \in Attrs |-> 0]]
  /\ reads = [ob \in Instances |-> [a \in Attrs |-> 0]]
  /\ fails = [ob \in Instances |-> [a \in Attrs |-> 0]]
  /\ last = NoRead
  /\ muts = 0

(***************************************************************************)
(* The getter func(ob): what one invocation gives.  The getters of         *)
(* group.py return lists of objects (weekly_chart_list), single objects    *)
(* (recent_weekly_album_chart) and lazylists; a getter may also return     *)
(* None or an immutable value, or raise.                                   *)
(***************************************************************************)
GetterShapes ==
  {"none", "atom", "empty", "nested", "opaqueL", "opaqueE", "raise"}

\* the heap and the value after the getter ran with the given outcome
func(h, shape) ==
  CASE shape = "none" -> [heap |-> h, val |-> None]
    [] shape = "atom" -> [heap |-> h, val |-> Atom(1)]
    [] shape = "empty" ->
         [heap |-> Append(h, Obj(<<>>, "ok")), val |-> Ref(Len(h) + 1)]
    [] shape = "nested" ->
         [heap |-> h \o <<Obj(<<Atom(1)>>, "ok"),
                          Obj(<<Ref(Len(h) + 1)>>, "ok")>>,
          val |-> Ref(Len(h) + 2)]
    [] shape = "opaqueL" ->
         [heap |-> Append(h, Obj(<<>>, "LastfmError")), val |-> Ref(Len(h) + 1)]
    [] shape = "opaqueE" ->
         [heap |-> Append(h, Obj(<<>>, "OtherError")), val |-> Ref(Len(h) + 1)]
    [] shape = "raise" -> [heap |-> h, val |-> Raise(OtherError)]

(***************************************************************************)
(* copy.copy(x): None and atoms are returned as they are; an object that   *)
(* supports copying gives a new object with the SAME items (a shallow      *)
(* copy: the items are not copied); otherwise the copy raises.             *)
(***************************************************************************)
copy(h, val) ==
  IF ~IsRef(val) THEN [heap |-> h, val |-> val]
  ELSE IF h[val.v].copy = "ok"
       THEN [heap |-> Append(h, Obj(h[val.v].items, "ok")),
             val |-> Ref(Len(h) + 1)]
       ELSE [heap |-> h,
             val |-> Raise(IF h[val.v].copy = "LastfmError"
                           THEN LastfmError ELSE OtherError)]

(***************************************************************************)
(* cached_property.wrapper(ob), line by line.                              *)
(***************************************************************************)
\* line 48: getattr(ob, attribute_name, None)
getattr(s) == IF s = Unset THEN None ELSE s

\* line 49: cache_attribute is None
is_None(cache_attribute) == cache_attribute = None

\* lines 50-51, mutated: the failure is caught and stored like a value
setattr_always(s, computed) == computed

\* lines 50-51: setattr runs only if func(ob) returned
setattr(s, computed) == IF IsRaise(computed) THEN s ELSE computed

\* lines 52-56: the copy, or the cached value itself if copying raised
\* LastfmError; any other exception of the copy propagates
copy_or_self(h, cache_attribute) ==
  LET cp == copy(h, cache_attribute)
  IN  IF cp.val = Raise(LastfmError)
      THEN [heap |-> h, val |-> cache_attribute]
      ELSE cp

\* the reads made so far, on all instances and attributes
RECURSIVE Sum(_, _)
Sum(f, S) ==
  IF S = {} THEN 0
  ELSE LET x == CHOOSE x \in S : TRUE IN f[x] + Sum(f, S \ {x})

nreads == Sum([ob \in Instances |-> Sum(reads[ob], Attrs)], Instances)

\* One read of the property of instance ob, attribute a; shape is what the
\* getter gives if it is invoked.
Read(ob, a, shape) ==
  LET cache_attribute == getattr(slot[ob][a])
      compute == is_None(cache_attribute)
      r == IF compute THEN func(heap, shape)
           ELSE [heap |-> heap, val |-> cache_attribute]
      stored == IF compute THEN setattr(slot[ob][a], r.val) ELSE slot[ob][a]
      failed == compute /\ IsRaise(r.val)
      res == IF failed THEN r ELSE copy_or_self(r.heap, getattr(stored))
  IN  /\ nreads < MaxReads
      /\ reads' = [reads EXCEPT ![ob][a] = @ + 1]
      /\ calls' = [calls EXCEPT ![ob][a] = IF compute THEN @ + 1 ELSE @]
      /\ fails' = [fails EXCEPT ![ob][a] = IF failed THEN @ + 1 ELSE @]
      /\ slot' = [slot EXCEPT ![ob][a] = stored]
      /\ heap' = res.heap
      /\ last' = [ob |-> ob, a |-> a, out |-> res.val, ran |-> compute,
                  got |-> IF compute THEN r.val ELSE Unset]
      /\ UNCHANGED muts

\* the objects reachable from a value
RECURSIVE Reach(_, _, _)
Reach(h, val, depth) ==
  IF ~IsRef(val) \/ depth = 0 THEN {}
  ELSE {val.v} \cup
       UNION {Reach(h, h[val.v].items[i], depth - 1) :
                i \in 1..Len(h[val.v].items)}

MaxDepth == 3

\* The reader changes the value it was returned, or an object reachable
\* from it (appends to a list, sets a field).
Mutate(addr) ==
  /\ muts < MaxMutations
  /\ ~IsRaise(last.out)
  /\ addr \in Reach(heap, last.out, MaxDepth)
  /\ heap' = [heap EXCEPT ![addr].items = Append(@, Atom(9))]
  /\ muts' = muts + 1
  /\ UNCHANGED <<slot, calls, reads, fails, last>>

(***************************************************************************)
(* Paginated sequences: depaginate (decorators.py) and Group.members       *)
(* (group.py).                                                             *)
(*                                                                         *)
(* The page fetcher is the decorated generator function: its first next()  *)
(* fetches one page and yields the total page count, the following ones    *)
(* yield the page's elements.  Element i of page p is written <<p, i>>, so *)
(* that a repeated, skipped or misplaced element shows.  The page          *)
(* argument is depaginate's own: the caller passes none, and the fetcher   *)
(* then serves page 1.                                                     *)
(***************************************************************************)
MaxPages == 3
MaxPageLen == 2

Pages == 1..MaxPages

VARIABLES
  PageLen,      \* PageLen[p]: how many elements the fetcher yields for page p
  T1,           \* the total page count page 1 reports
  T2,           \* the total page count every later page reports
  failPage,     \* the page whose fetch raises (0: none)
  gen,          \* the generator: where it is suspended, its locals
  kwargs_page,  \* kwargs['page'] / params['page'] (0: not set)
  fetched,      \* the pages fetched so far, in order
  lst,          \* the lazylist: the elements consumed so far
  outcome       \* how the consumer's last demand ended

pageVars ==
  <<PageLen, T1, T2, failPage, gen, kwargs_page, fetched, lst, outcome>>

\* what the fetcher gives for page p
Total(p) == IF p = 1 THEN T1 ELSE T2
Elems(p) == [i \in 1..PageLen[p] |-> <<p, i>>]

Uncalled ==
  [pc |-> "uncalled", phase |-> "first", page |-> 0, idx |-> 0,
   total_pages |-> 0]

PageInit ==
  /\ PageLen \in [Pages -> 0..MaxPageLen]
  /\ T1 \in 0..MaxPages
  /\ T2 \in 0..MaxPages
  /\ failPage \in 0..MaxPages
  /\ gen = Uncalled
  /\ kwargs_page = 0
  /\ fetched = <<>>
  /\ lst = <<>>
  /\ outcome = "none"

\* the paging variables while another decorator is at work
PageIdle ==
  /\ PageLen = [p \in Pages |-> 0]
  /\ T1 = 0
  /\ T2 = 0
  /\ failPage = 0
  /\ gen = Uncalled
  /\ kwargs_page = 0
  /\ fetched = <<>>
  /\ lst = <<>>
  /\ outcome = "none"

\* what one next() of a generator gives: the generator afterwards, the page
\* argument, the fetch log and the element yielded ("stop": StopIteration,
\* "raise": the fetch's exception)
Step(g, kw, fl, out) == [gen |-> g, kw |-> kw, fetched |-> fl, out |-> out]

\* depaginate, line 121, mutated: the loop starts at page 1
first_loop_page_1 == 1

\* depaginate, line 121: xrange(2, total_pages+1)
depaginate_first_loop_page == 2

\* Group.members, line 123: xrange(1, total_pages+1)
members_first_loop_page == 1

(***************************************************************************)
(* depaginate's generator, mutated: the next page is fetched as soon as    *)
(* the last element of a page is yielded, before the consumer asks.        *)
(***************************************************************************)
RECURSIVE depaginate_generator_prefetching(_, _, _)
depaginate_generator_prefetching(g, kw, fl) ==
  CASE g.pc = "start" ->
         IF failPage = 1
         THEN Step([g EXCEPT !.pc = "raised"], kw, Append(fl, 1), "raise")
         ELSE depaginate_generator_prefetching(
                [pc |-> "iter", phase |-> "first", page |-> 1, idx |-> 0,
                 total_pages |-> Total(1)], kw, Append(fl, 1))
    [] g.pc = "iter" ->
         LET page == IF g.phase = "first" THEN 2 ELSE g.page + 1
         IN  IF g.idx < PageLen[g.page]
             THEN Step([g EXCEPT !.idx = @ + 1], kw,
                       IF g.idx + 1 = PageLen[g.page] /\ page <= g.total_pages
                       THEN Append(fl, page) ELSE fl,
                       Elems(g.page)[g.idx + 1])
             ELSE IF page > g.total_pages
                  THEN Step([g EXCEPT !.pc = "done"], kw, fl, "stop")
                  ELSE IF failPage = page
                  THEN Step([g EXCEPT !.pc = "raised"], page, fl, "raise")
                  ELSE depaginate_generator_prefetching(
                         [g EXCEPT !.phase = "loop", !.page = page,
                                   !.idx = 0], page,
                         IF PageLen[g.page] = 0 THEN Append(fl, page) ELSE fl)
    [] OTHER -> Step(g, kw, fl, "stop")

(***************************************************************************)
(* depaginate's generator, mutated: an exception of a fetch is caught and  *)
(* the page is skipped.                                                    *)
(***************************************************************************)
RECURSIVE depaginate_generator_swallowing(_, _, _)
depaginate_generator_swallowing(g, kw, fl) ==
  CASE g.pc = "start" ->
         IF failPage = 1
         THEN Step([g EXCEPT !.pc = "done"], kw, Append(fl, 1), "stop")
         ELSE depaginate_generator_swallowing(
                [pc |-> "iter", phase |-> "first", page |-> 1, idx |-> 0,
                 total_pages |-> Total(1)], kw, Append(fl, 1))
    [] g.pc = "iter" ->
         IF g.idx < PageLen[g.page]
         THEN Step([g EXCEPT !.idx = @ + 1], kw, fl, Elems(g.page)[g.idx + 1])
         ELSE LET page == IF g.phase = "first" THEN 2 ELSE g.page + 1
              IN  IF page > g.total_pages
                  THEN Step([g EXCEPT !.pc = "done"], kw, fl, "stop")
                  ELSE depaginate_generator_swallowing(
                         [g EXCEPT !.phase = "loop", !.page = page,
                                   !.idx = IF failPage = page
                                           THEN PageLen[page] ELSE 0],
                         page, Append(fl, page))
    [] OTHER -> Step(g, kw, fl, "stop")

(***************************************************************************)
(* depaginate's generator, mutated: line 124 reads                         *)
(* total_pages = gen.next(), so that every page's total replaces the one   *)
(* learned before.                                                         *)
(***************************************************************************)
RECURSIVE depaginate_generator_retotalling(_, _, _)
depaginate_generator_retotalling(g, kw, fl) ==
  CASE g.pc = "start" ->
         IF failPage = 1
         THEN Step([g EXCEPT !.pc = "raised"], kw, Append(fl, 1), "raise")
         ELSE depaginate_generator_retotalling(
                [pc |-> "iter", phase |-> "first", page |-> 1, idx |-> 0,
                 total_pages |-> Total(1)], kw, Append(fl, 1))
    [] g.pc = "iter" ->
         IF g.idx < PageLen[g.page]
         THEN Step([g EXCEPT !.idx = @ + 1], kw, fl, Elems(g.page)[g.idx + 1])
         ELSE LET page == IF g.phase = "first" THEN 2 ELSE g.page + 1
              IN  IF page > g.total_pages
                  THEN Step([g EXCEPT !.pc = "done"], kw, fl, "stop")
                  ELSE IF failPage = page
                  THEN Step([g EXCEPT !.pc = "raised"], page,
                            Append(fl, page), "raise")
                  ELSE depaginate_generator_retotalling(
                         [g EXCEPT !.phase = "loop", !.page = page,
                                   !.idx = 0, !.total_pages = Total(page)],
                         page, Append(fl, page))
    [] OTHER -> Step(g, kw, fl, "stop")

(***************************************************************************)
(* One next() of depaginate's generator (lines 116-126): it runs to the    *)
(* next yield, fetching pages on the way.                                  *)
(***************************************************************************)
RECURSIVE depaginate_generator(_, _, _)
depaginate_generator(g, kw, fl) ==
  CASE g.pc = "start" ->
         \* lines 117-118: the first fetch, with the caller's arguments
         IF failPage = 1
         THEN Step([g EXCEPT !.pc = "raised"], kw, Append(fl, 1), "raise")
         ELSE depaginate_generator(
                [pc |-> "iter", phase |-> "first", page |-> 1, idx |-> 0,
                 total_pages |-> Total(1)], kw, Append(fl, 1))
    [] g.pc = "iter" ->
         IF g.idx < PageLen[g.page]
         THEN \* lines 119-120, 125-126: yield e
              Step([g EXCEPT !.idx = @ + 1], kw, fl, Elems(g.page)[g.idx + 1])
         ELSE LET page == IF g.phase = "first"
                          THEN depaginate_first_loop_page
                          ELSE g.page + 1
              IN  IF page > g.total_pages
                  THEN Step([g EXCEPT !.pc = "done"], kw, fl, "stop")
                  ELSE IF failPage = page
                  THEN \* lines 122-124: the fetch raises in gen.next()
                       Step([g EXCEPT !.pc = "raised"], page,
                            Append(fl, page), "raise")
                  ELSE \* lines 122-124: the total of this page is dropped
                       depaginate_generator(
                         [g EXCEPT !.phase = "loop", !.page = page,
                                   !.idx = 0], page, Append(fl, page))
    [] OTHER -> Step(g, kw, fl, "stop")

(***************************************************************************)
(* One next() of Group.members' generator gen (group.py lines 105-127).    *)
(***************************************************************************)
RECURSIVE members_gen(_, _, _)
members_gen(g, kw, fl) ==
  CASE g.pc = "start" ->
         \* lines 106-107: the first fetch, params without a page
         IF failPage = 1
         THEN Step([g EXCEPT !.pc = "raised"], kw, Append(fl, 1), "raise")
         ELSE members_gen(
                [pc |-> "iter", phase |-> "first", page |-> 1, idx |-> 0,
                 total_pages |-> Total(1)], kw, Append(fl, 1))
    [] g.pc = "iter" ->
         IF g.idx < PageLen[g.page]
         THEN \* lines 120-121, 126-127: yield u
              Step([g EXCEPT !.idx = @ + 1], kw, fl, Elems(g.page)[g.idx + 1])
         ELSE LET page == IF g.phase = "first"
                          THEN members_first_loop_page
                          ELSE g.page + 1
              IN  IF page > g.total_pages
                  THEN Step([g EXCEPT !.pc = "done"], kw, fl, "stop")
                  ELSE IF failPage = page
                  THEN \* lines 124-125: the fetch raises
                       Step([g EXCEPT !.pc = "raised"], page,
                            Append(fl, page), "raise")
                  ELSE members_gen(
                         [g EXCEPT !.phase = "loop", !.page = page,
                                   !.idx = 0], page, Append(fl, page))
    [] OTHER -> Step(g, kw, fl, "stop")

\* The lazylist takes what the generator's next() gave: an element joins
\* the consumed part, StopIteration ends the list, an exception reaches
\* the consumer.
lazylist_consume(l, out) ==
  IF out = "stop" \/ out = "raise" THEN l ELSE Append(l, out)

lazylist_outcome(out) ==
  IF out = "stop" THEN "exhausted"
  ELSE IF out = "raise" THEN "raised" ELSE "element"

\* Calling the decorated operation (depaginate.wrapper, lines 114-127) or
\* reading Group.members: the lazylist is made, its generator has not run.
Call ==
  /\ gen.pc = "uncalled"
  /\ gen' = [gen EXCEPT !.pc = "start"]
  /\ UNCHANGED <<PageLen, T1, T2, failPage, kwargs_page, fetched, lst,
                 outcome>>

\* the consumer demands the next element
Consume(s) ==
  /\ gen' = s.gen
  /\ kwargs_page' = s.kw
  /\ fetched' = s.fetched
  /\ lst' = lazylist_consume(lst, s.out)
  /\ outcome' = lazylist_outcome(s.out)
  /\ UNCHANGED <<PageLen, T1, T2, failPage>>

DepaginateDemand ==
  /\ gen.pc \in {"start", "iter"}
  /\ Consume(depaginate_generator(gen, kwargs_page, fetched))

MembersDemand ==
  /\ gen.pc \in {"start", "iter"}
  /\ Consume(members_gen(gen, kwargs_page, fetched))

(***************************************************************************)
(* async_callback (decorators.py lines 131-184).                           *)
(*                                                                         *)
(* A call is made with positional arguments and, possibly, a keyword       *)
(* argument callback.  "x" is an argument that is not callable, "f" and    *)
(* "g" are functions.  The wrapped operation func returns a value, raises  *)
(* an exception derived from Exception, or raises one that is not          *)
(* (SystemExit, KeyboardInterrupt, GeneratorExit, an old-style class).     *)
(***************************************************************************)
NumCalls == 2

Calls == 1..NumCalls

Callable(a) == a \in {"f", "g"}

\* the arguments a call is made with: args, and kwargs['callback'] ("absent"
\* when kwargs has no such key, "None" when it is None)
ArgLists == {<<"x">>, <<"x", "f">>}
KwCallbacks == {"absent", "None", "x", "g"}
CallInputs == [args : ArgLists, kw : KwCallbacks]

\* what func does when it runs in call c
FuncOutcomes == {"value", "Exception", "BaseException"}
Out(kind, c) == <<kind, c>>
NoValue == <<"None", 0>>
NoInput == [args |-> <<>>, kw |-> "absent"]

VARIABLES
  input,      \* input[c]: the arguments call c was made with
  cpc,        \* cpc[c]: the caller: "idle", "spawned" (thread started, the
              \*   wrapper not yet returned), "returned", "raised"
  ret,        \* ret[c]: what the caller got: the value returned or the
              \*   exception raised
  callback,   \* callback[c]: the wrapper's local callback ("None": None)
  fargs,      \* fargs[c]: the positional arguments func was invoked with
  wpc,        \* wpc[c]: the worker thread: "none", "ready", "ran", "done",
              \*   "died" (an exception ended the thread)
  result,     \* result[c]: async_call's local result
  opOut,      \* opOut[c]: what the invocations of func gave, in order
  ranOn,      \* ranOn[c]: the threads that invoked func, in order
  cblog       \* cblog[c]: what the callback was invoked with, in order

asyncVars ==
  <<input, cpc, ret, callback, fargs, wpc, result, opOut, ranOn, cblog>>

AsyncInit ==
  /\ input = [c \in Calls |-> NoInput]
  /\ cpc = [c \in Calls |-> "idle"]
  /\ ret = [c \in Calls |-> NoValue]
  /\ callback = [c \in Calls |-> "None"]
  /\ fargs = [c \in Calls |-> <<>>]
  /\ wpc = [c \in Calls |-> "none"]
  /\ result = [c \in Calls |-> NoValue]
  /\ opOut = [c \in Calls |-> <<>>]
  /\ ranOn = [c \in Calls |-> <<>>]
  /\ cblog = [c \in Calls |-> <<>>]

\* lines 159-165: the first callable positional argument, or 0
first_callable(args) ==
  IF \E i \in 1..Len(args) : Callable(args[i])
  THEN CHOOSE i \in 1..Len(args) :
         Callable(args[i]) /\ \A j \in 1..(i - 1) : ~Callable(args[j])
  ELSE 0

\* lines 162-164: args without its element i
remove(args, i) ==
  [j \in 1..(Len(args) - 1) |-> IF j < i THEN args[j] ELSE args[j + 1]]

\* lines 158-168: the callback and the remaining positional arguments
extract_callback(in) ==
  LET i == first_callable(in.args)
      positional == IF i = 0 THEN "None" ELSE in.args[i]
  IN  [callback |-> IF in.kw # "absent" THEN in.kw ELSE positional,
       args |-> IF i = 0 THEN in.args ELSE remove(in.args, i)]

\* line 170, mutated: the callback is not tested for being callable
is_async_not_None(cb) == cb # "None"

\* line 170: callback is not None and callable(callback)
is_async(cb) == cb # "None" /\ Callable(cb)

\* line 175: except Exception, e
caught(kind) == kind = "Exception"

\* lines 158-181 without a callback: func runs in the caller, its value is
\* returned and its exception propagates
SyncCall(c, in, kind) ==
  LET e == extract_callback(in)
  IN  /\ cpc[c] = "idle"
      /\ ~is_async(e.callback)
      /\ input' = [input EXCEPT ![c] = in]
      /\ callback' = [callback EXCEPT ![c] = e.callback]
      /\ fargs' = [fargs EXCEPT ![c] = e.args]
      /\ opOut' = [opOut EXCEPT ![c] = Append(@, Out(kind, c))]
      /\ ranOn' = [ranOn EXCEPT ![c] = Append(@, "caller")]
      /\ cpc' = [cpc EXCEPT ![c] = IF kind = "value" THEN "returned"
                                   ELSE "raised"]
      /\ ret' = [ret EXCEPT ![c] = Out(kind, c)]
      /\ UNCHANGED <<wpc, result, cblog>>

\* lines 158-179 with a callback: the thread is started
AsyncCall(c, in) ==
  LET e == extract_callback(in)
  IN  /\ cpc[c] = "idle"
      /\ is_async(e.callback)
      /\ input' = [input EXCEPT ![c] = in]
      /\ callback' = [callback EXCEPT ![c] = e.callback]
      /\ fargs' = [fargs EXCEPT ![c] = e.args]
      /\ cpc' = [cpc EXCEPT ![c] = "spawned"]
      /\ wpc' = [wpc EXCEPT ![c] = "ready"]
      /\ UNCHANGED <<ret, result, opOut, ranOn, cblog>>

\* line 180, mutated: the wrapper joins the thread before it returns
AsyncReturnAfterJoin(c) ==
  /\ cpc[c] = "spawned"
  /\ wpc[c] \in {"done", "died"}
  /\ cpc' = [cpc EXCEPT ![c] = "returned"]
  /\ ret' = [ret EXCEPT ![c] = NoValue]
  /\ UNCHANGED <<input, callback, fargs, wpc, result, opOut, ranOn, cblog>>

\* line 180: return
AsyncReturn(c) ==
  /\ cpc[c] = "spawned"
  /\ cpc' = [cpc EXCEPT ![c] = "returned"]
  /\ ret' = [ret EXCEPT ![c] = NoValue]
  /\ UNCHANGED <<input, callback, fargs, wpc, result, opOut, ranOn, cblog>>

\* lines 172-176, on the worker: func runs; its value, or its exception if
\* the except clause catches it, becomes result; any other exception ends
\* async_call and the thread
WorkerRun(c, kind) ==
  /\ wpc[c] = "ready"
  /\ opOut' = [opOut EXCEPT ![c] = Append(@, Out(kind, c))]
  /\ ranOn' = [ranOn EXCEPT ![c] = Append(@, "worker")]
  /\ IF kind = "value" \/ caught(kind)
     THEN /\ result' = [result EXCEPT ![c] = Out(kind, c)]
          /\ wpc' = [wpc EXCEPT ![c] = "ran"]
     ELSE /\ wpc' = [wpc EXCEPT ![c] = "died"]
          /\ UNCHANGED result
  /\ UNCHANGED <<input, cpc, ret, callback, fargs, cblog>>

\* line 177, on the worker: callback(result)
WorkerCallback(c) ==
  /\ wpc[c] = "ran"
  /\ cblog' = [cblog EXCEPT ![c] = Append(@, result[c])]
  /\ wpc' = [wpc EXCEPT ![c] = "done"]
  /\ UNCHANGED <<input, cpc, ret, callback, fargs, result, opOut, ranOn>>

(***************************************************************************)
(* authenticate (decorators.py lines 60-100).                              *)
(*                                                                         *)
(* The caller self is described by what the wrapper inspects:              *)
(*   isUser          isinstance(self, User), and then                      *)
(*   authenticated     self.authenticated                                  *)
(*   user            "absent" (no attribute user), else whether            *)
(*                     self.user.authenticated: "no", "yes"                *)
(*   subject         "absent", "other" (a _subject that is no User), else  *)
(*                     whether self._subject.authenticated: "no", "yes"    *)
(*   api             "absent", "other" (an _api that is no Api), else      *)
(*                     whether self._api.get_authenticated_user() returns  *)
(*                     a user ("yes") or raises AuthenticationFailedError  *)
(*                     ("no")                                              *)
(***************************************************************************)
Selves ==
  [isUser : BOOLEAN, authenticated : BOOLEAN,
   user : {"absent", "no", "yes"},
   subject : {"absent", "other", "no", "yes"},
   api : {"absent", "other", "no", "yes"}]

\* the callers there are: only a User has the attribute authenticated
Callers == {self \in Selves : self.authenticated => self.isUser}

\* the caller's other arguments
AuthArgs == {<<>>, <<"a">>, <<"a", "b">>}

\* what the wrapped operation does if it is invoked
AuthFuncOutcomes == {"value", "AuthenticationFailedError", "OtherError"}

VARIABLES
  a_pc,         \* "idle", or "done" once the call has ended
  a_self,       \* the caller
  a_args,       \* the arguments of the call
  a_funcCalls,  \* the invocations of func, in order: the arguments, and
                \*   what func did
  a_gau,        \* calls of self._api.get_authenticated_user()
  a_out         \* how the call ended

authVars == <<a_pc, a_self, a_args, a_funcCalls, a_gau, a_out>>

NoCaller ==
  [isUser |-> FALSE, authenticated |-> FALSE, user |-> "absent",
   subject |-> "absent", api |-> "absent"]

\* how a call ends: kind "return" (val: the value) or "raise" (val: the
\* exception class); by: "func" when the value or the exception is the
\* wrapped operation's own, "gate" when the wrapper raised it at line 97;
\* username: the name in the gate's message
Ended(kind, val, by, username) ==
  [kind |-> kind, val |-> val, by |-> by, username |-> username]

NotEnded == Ended("none", "none", "none", "none")

AuthInit ==
  /\ a_pc = "idle"
  /\ a_self = NoCaller
  /\ a_args = <<>>
  /\ a_funcCalls = <<>>
  /\ a_gau = 0
  /\ a_out = NotEnded

\* return func(self, *args, **kwargs): the operation's value or exception
func_result(fo) ==
  IF fo = "value" THEN Ended("return", "value", "func", "none")
  ELSE Ended("raise", fo, "func", "none")

\* lines 97-98: raise AuthenticationFailedError("user '%s' ..." % username)
denied(username) ==
  Ended("raise", "AuthenticationFailedError", "gate", username)

\* lines 80, 84, 88, mutated: the session's flag is not tested
permits_always(flag) == TRUE

\* lines 80, 84, 88: if <session>.authenticated
permits(flag) == flag = "yes"

\* lines 78-90, mutated: the branches are tried one after the other (if
\* instead of elif), so that a later source is consulted when an earlier one
\* is not authenticated
authenticate_falling_through(self, args, fo) ==
  LET invoked == <<[args |-> args, out |-> fo]>>
      call(n) == [out |-> func_result(fo), funcCalls |-> invoked, gau |-> n]
  IN  IF self.isUser /\ self.authenticated THEN call(0)
      ELSE IF self.user = "yes" THEN call(0)
      ELSE IF self.subject = "yes" THEN call(0)
      ELSE IF self.api = "yes"
      THEN IF fo = "AuthenticationFailedError"
           THEN [out |-> denied("user.name"), funcCalls |-> invoked,
                 gau |-> 1]
           ELSE call(1)
      ELSE [out |-> denied("None"), funcCalls |-> <<>>,
            gau |-> IF self.api = "no" THEN 1 ELSE 0]

\* lines 75-98: the wrapper.  It gives how the call ends, the invocations of
\* func and the calls of get_authenticated_user.
authenticate(self, args, fo) ==
  LET invoked == <<[args |-> args, out |-> fo]>>
      call == [out |-> func_result(fo), funcCalls |-> invoked, gau |-> 0]
      deny(username) ==
        [out |-> denied(username), funcCalls |-> <<>>, gau |-> 0]
  IN  IF self.isUser
      THEN \* lines 78-81
           IF permits(IF self.authenticated THEN "yes" ELSE "no")
           THEN call ELSE deny("self.name")
      ELSE IF self.user # "absent"
      THEN \* lines 82-85
           IF permits(self.user) THEN call ELSE deny("self.user.name")
      ELSE IF self.subject \in {"no", "yes"}
      THEN \* lines 86-89
           IF permits(self.subject) THEN call ELSE deny("self._subject.name")
      ELSE IF self.api \in {"no", "yes"}
      THEN \* lines 90-96
           IF self.api = "no"
           THEN \* get_authenticated_user raised: username is still None
                [out |-> denied("None"), funcCalls |-> <<>>, gau |-> 1]
           ELSE IF fo = "AuthenticationFailedError"
           THEN \* func's own AuthenticationFailedError is caught at line 95
                [out |-> denied("user.name"), funcCalls |-> invoked,
                 gau |-> 1]
           ELSE [call EXCEPT !.gau = 1]
      ELSE deny("None")

AuthCall(self, args, fo) ==
  LET r == authenticate(self, args, fo)
  IN  /\ a_pc = "idle"
      /\ a_pc' = "done"
      /\ a_self' = self
      /\ a_args' = args
      /\ a_funcCalls' = r.funcCalls
      /\ a_gau' = r.gau
      /\ a_out' = r.out

(***************************************************************************)
(* top_property (decorators.py lines 9-29).  The elements of the list      *)
(* attribute are None or values; a value is falsy if it is 0 (likewise an  *)
(* empty string or an empty container) and truthy otherwise.               *)
(***************************************************************************)
MaxListLen == 3

TopValues == {None, Atom(0), Atom(1), Atom(2)}

\* the lists of at most n elements
RECURSIVE ListsUpTo(_)
ListsUpTo(n) ==
  IF n = 0 THEN {<<>>}
  ELSE LET shorter == ListsUpTo(n - 1)
       IN  shorter \cup {Append(l, x) : l \in {m \in shorter : Len(m) = n - 1},
                                        x \in TopValues}

TopLists == ListsUpTo(MaxListLen)

VARIABLES
  top_list,    \* the list attribute getattr(ob, list_property_name)
  top_pc,      \* "idle" before the property is read, "done" after
  top_result   \* what the property returned

topVars == <<top_list, top_pc, top_result>>

TopInit ==
  /\ top_list \in TopLists
  /\ top_pc = "idle"
  /\ top_result = Unset

TopIdle ==
  /\ top_list = <<>>
  /\ top_pc = "idle"
  /\ top_result = Unset

\* Python's truth value of None, of a number
truthy(val) == val # None /\ val # Atom(0)

\* a and b, a or b: the value of the operand that decided
python_and(a, b) == IF truthy(a) THEN b ELSE a
python_or(a, b) == IF truthy(a) THEN a ELSE b

\* line 27: len(top_list) and top_list[0] or None
top_property(l) ==
  python_or(python_and(Atom(Len(l)), IF Len(l) > 0 THEN l[1] ELSE None),
            None)

\* lines 25-27: one read of the property
TopRead ==
  /\ top_pc = "idle"
  /\ top_pc' = "done"
  /\ top_result' = top_property(top_list)
  /\ UNCHANGED top_list

(***************************************************************************)
(* Group's identity key (group.py lines 13-23, 137-145).  A name is None   *)
(* or a string, written as the sequence of its characters' codes.          *)
(***************************************************************************)
MaxNameLen == 2

Chars == {1, 2}

PyNone == [t |-> "NoneType", s |-> <<>>]
Str(s) == [t |-> "str", s |-> s]

RECURSIVE StringsUpTo(_)
StringsUpTo(n) ==
  IF n = 0 THEN {<<>>}
  ELSE LET shorter == StringsUpTo(n - 1)
       IN  shorter \cup {Append(l, c) : l \in {m \in shorter : Len(m) = n - 1},
                                        c \in Chars}

Names == {PyNone} \cup {Str(s) : s \in StringsUpTo(MaxNameLen)}

\* the first argument of Group.init
ApiArgs == {"Api", "other"}

\* **kwds of _hash_func: without the key 'name', or with it
Kwds == {[has |-> FALSE, name |-> PyNone]}
          \cup {[has |-> TRUE, name |-> n] : n \in Names}

\* what a key derivation gives: an integer key, or an exception
Key(of, n) == [t |-> "key", of |-> of, v |-> n]
InvalidParametersError == [t |-> "raise", of |-> "InvalidParametersError", v |-> 0]
NoKey == [t |-> "none", of |-> "", v |-> 0]

HashMod == 256

\* hash() of a string: a polynomial in the characters' codes
RECURSIVE str_hash(_)
str_hash(s) ==
  IF s = <<>> THEN 0
  ELSE (31 * str_hash(SubSeq(s, 1, Len(s) - 1)) + s[Len(s)]) % HashMod

\* hash(x): defined for None (an integer fixed by the interpreter) as for
\* strings; it does not raise
hash(x) == IF x.t = "NoneType" THEN Key("NoneType", 0)
           ELSE Key("str", str_hash(x.s))

\* lines 137-142: hash(kwds['name']); KeyError becomes InvalidParametersError
_hash_func(kwds) == IF kwds.has THEN hash(kwds.name) ELSE InvalidParametersError

\* lines 144-145: _hash_func(name = self.name)
__hash__(name) == _hash_func([has |-> TRUE, name |-> name])

VARIABLES
  g_pc,      \* "new", "made" (init returned) or "init_failed"
  g_name,    \* self._name
  h_op,      \* the key derivation made: "none", "__hash__" or "_hash_func"
  h_kwds,    \* the kwds of the _hash_func call
  h_out      \* what the key derivation gave

groupVars == <<g_pc, g_name, h_op, h_kwds, h_out>>

GroupInit ==
  /\ g_pc = "new"
  /\ g_name = PyNone
  /\ h_op = "none"
  /\ h_kwds = [has |-> FALSE, name |-> PyNone]
  /\ h_out = NoKey

\* lines 13-19: Group.init(api, name)
init(api, name) ==
  /\ g_pc = "new"
  /\ IF api # "Api"
     THEN g_pc' = "init_failed" /\ UNCHANGED g_name
     ELSE g_pc' = "made" /\ g_name' = name
  /\ UNCHANGED <<h_op, h_kwds, h_out>>

\* hash(group)
HashGroup ==
  /\ g_pc = "made" /\ h_op = "none"
  /\ h_op' = "__hash__"
  /\ h_out' = __hash__(g_name)
  /\ UNCHANGED <<g_pc, g_name, h_kwds>>

\* Group._hash_func(**kwds), called on the class
HashFunc(kwds) ==
  /\ h_op = "none"
  /\ h_op' = "_hash_func"
  /\ h_kwds' = kwds
  /\ h_out' = _hash_func(kwds)
  /\ UNCHANGED <<g_pc, g_name>>

(***************************************************************************)
(* cached_property read by several threads at once (the workers that       *)
(* async_callback starts, decorators.py lines 178-179, run the wrapped     *)
(* operations concurrently).  The wrapper (lines 47-56) takes no lock: a   *)
(* thread may be suspended between any two of its lines, and the getter of *)
(* line 50 waits for the network.  cache_attribute is local to the thread. *)
(***************************************************************************)
Threads == {"w1", "w2"}

\* the instance the threads read
SharedInstance == "g1"

VARIABLES
  t_pc,      \* t_pc[t]: "idle", the line the thread is about to run ("50",
             \* "51", "52"), or "done"
  t_a,       \* t_a[t]: the attribute the thread reads
  t_cache,   \* t_cache[t]: the thread's local cache_attribute
  t_got,     \* t_got[t]: what the getter gave if the thread invoked it
  t_out      \* t_out[t]: what the read gave the thread

concVars == <<t_pc, t_a, t_cache, t_got, t_out>>

ConcInit ==
  /\ t_pc = [t \in Threads |-> "idle"]
  /\ t_a = [t \in Threads |-> ""]
  /\ t_cache = [t \in Threads |-> Unset]
  /\ t_got = [t \in Threads |-> Unset]
  /\ t_out = [t \in Threads |-> Unset]

\* lines 48-49: read the slot, test it
Line48(t, a) ==
  LET cache_attribute == getattr(slot[SharedInstance][a])
  IN  /\ t_pc[t] = "idle"
      /\ t_a' = [t_a EXCEPT ![t] = a]
      /\ t_cache' = [t_cache EXCEPT ![t] = cache_attribute]
      /\ t_pc' = [t_pc EXCEPT ![t] = IF is_None(cache_attribute)
                                     THEN "50" ELSE "52"]
      /\ reads' = [reads EXCEPT ![SharedInstance][a] = @ + 1]
      /\ UNCHANGED <<heap, slot, calls, fails, last, muts, t_got, t_out>>

\* line 50: cache_attribute = func(ob)
Line50(t, shape) ==
  LET r == func(heap, shape)
  IN  /\ t_pc[t] = "50"
      /\ heap' = r.heap
      /\ calls' = [calls EXCEPT ![SharedInstance][t_a[t]] = @ + 1]
      /\ t_got' = [t_got EXCEPT ![t] = r.val]
      /\ IF IsRaise(r.val)
         THEN /\ fails' = [fails EXCEPT ![SharedInstance][t_a[t]] = @ + 1]
              /\ t_out' = [t_out EXCEPT ![t] = r.val]
              /\ t_pc' = [t_pc EXCEPT ![t] = "done"]
              /\ UNCHANGED t_cache
         ELSE /\ t_cache' = [t_cache EXCEPT ![t] = r.val]
              /\ t_pc' = [t_pc EXCEPT ![t] = "51"]
              /\ UNCHANGED <<fails, t_out>>
      /\ UNCHANGED <<slot, reads, last, muts, t_a>>

\* line 51: setattr(ob, attribute_name, cache_attribute)
Line51(t) ==
  /\ t_pc[t] = "51"
  /\ slot' = [slot EXCEPT ![SharedInstance][t_a[t]] = setattr(@, t_cache[t])]
  /\ t_pc' = [t_pc EXCEPT ![t] = "52"]
  /\ UNCHANGED <<heap, calls, reads, fails, last, muts,
                 t_a, t_cache, t_got, t_out>>

\* lines 52-56: the copy is returned
Line52(t) ==
  LET res == copy_or_self(heap, t_cache[t])
  IN  /\ t_pc[t] = "52"
      /\ heap' = res.heap
      /\ t_out' = [t_out EXCEPT ![t] = res.val]
      /\ t_pc' = [t_pc EXCEPT ![t] = "done"]
      /\ UNCHANGED <<slot, calls, reads, fails, last, muts,
                     t_a, t_cache, t_got>>

(***************************************************************************)
(* Group's weekly chart lists (group.py lines 25-32, 46-54, 68-76, 90-98). *)
(* weekly_chart_list is a cached property giving the list of WeeklyChart   *)
(* entries in the order of the API's answer; entry k is written Atom(k).   *)
(* Each of weekly_album_chart_list, weekly_artist_chart_list and           *)
(* weekly_track_chart_list copies that list, reverses the copy and wraps a *)
(* generator over it in a lazylist, which runs the generator on demand.    *)
(***************************************************************************)
MaxCharts == 3

Kinds == {"album", "artist", "track"}

ChartGroup == "g1"

VARIABLES
  n_charts,       \* the number of entries the API gives for the group
  wcl,            \* wcl[kind]: the reversed list the generator iterates
  produced,       \* produced[kind]: the charts delivered to the consumer
  chartFetches,   \* chartFetches[kind]: the entries whose chart was fetched
  seen            \* a read of weekly_chart_list made by the consumer: the
                  \* items it gave, and how many charts were fetched before

chartVars == <<n_charts, wcl, produced, chartFetches, seen>>

NotSeen == [read |-> FALSE, items |-> <<>>, after |-> 0]

ChartIdle ==
  /\ n_charts = 0
  /\ wcl = [kind \in Kinds |-> Unset]
  /\ produced = [kind \in Kinds |-> <<>>]
  /\ chartFetches = [kind \in Kinds |-> <<>>]
  /\ seen = NotSeen

ChartInit ==
  /\ n_charts \in 0..MaxCharts
  /\ wcl = [kind \in Kinds |-> Unset]
  /\ produced = [kind \in Kinds |-> <<>>]
  /\ chartFetches = [kind \in Kinds |-> <<>>]
  /\ seen = NotSeen

\* lines 27-32: the getter of weekly_chart_list
weekly_chart_list(h) ==
  [heap |-> Append(h, Obj([k \in 1..n_charts |-> Atom(k)], "ok")),
   val |-> Ref(Len(h) + 1)]

\* self.weekly_chart_list: one read through cached_property.wrapper
read_weekly_chart_list(h, s) ==
  LET cache_attribute == getattr(s)
      compute == is_None(cache_attribute)
      r == IF compute THEN weekly_chart_list(h)
           ELSE [heap |-> h, val |-> cache_attribute]
      stored == IF compute THEN setattr(s, r.val) ELSE s
      res == copy_or_self(r.heap, getattr(stored))
  IN  [heap |-> res.heap, slot |-> stored, val |-> res.val, ran |-> compute]

\* list(x): a new list with the same items
list(h, val) ==
  [heap |-> Append(h, Obj(h[val.v].items, "ok")), val |-> Ref(Len(h) + 1)]

Reverse(items) == [i \in 1..Len(items) |-> items[Len(items) + 1 - i]]

\* wcl.reverse(), mutated: the list is left in the API's order
reverse_noop(h, addr) == h

\* wcl.reverse(): in place
reverse(h, addr) == [h EXCEPT ![addr].items = Reverse(@)]

\* get_weekly_album_chart(wc.start, wc.end) and its artist and track
\* counterparts: the chart of that kind for the entry's week
get_weekly_chart(kind, wc) == [kind |-> kind, week |-> wc.v]

\* lines 48-54 (70-76, 92-98): the sequence is built; nothing is fetched
\* but the weekly chart list itself, if it is not cached yet
Build(kind) ==
  LET r == read_weekly_chart_list(heap, slot[ChartGroup]["weekly_chart_list"])
      l == list(r.heap, r.val)
  IN  /\ wcl[kind] = Unset
      /\ heap' = reverse(l.heap, l.val.v)
      /\ slot' = [slot EXCEPT ![ChartGroup]["weekly_chart_list"] = r.slot]
      /\ reads' = [reads EXCEPT ![ChartGroup]["weekly_chart_list"] = @ + 1]
      /\ calls' = [calls EXCEPT ![ChartGroup]["weekly_chart_list"] =
                     IF r.ran THEN @ + 1 ELSE @]
      /\ wcl' = [wcl EXCEPT ![kind] = l.val]
      /\ UNCHANGED <<fails, last, muts, n_charts, produced, chartFetches, seen>>

\* The consumer demands the next element: the lazylist resumes the
\* generator (lines 52-53), which fetches the chart of the next entry of
\* wcl and yields it.
ChartDemand(kind) ==
  /\ wcl[kind] # Unset
  /\ Len(produced[kind]) < Len(heap[wcl[kind].v].items)
  /\ LET wc == heap[wcl[kind].v].items[Len(produced[kind]) + 1]
     IN  /\ chartFetches' = [chartFetches EXCEPT ![kind] = Append(@, wc.v)]
         /\ produced' = [produced EXCEPT ![kind] =
                           Append(@, get_weekly_chart(kind, wc))]
  /\ UNCHANGED <<cacheVars, n_charts, wcl, seen>>

\* the charts fetched so far, of all kinds
nfetched == Sum([kind \in Kinds |-> Len(chartFetches[kind])], Kinds)

\* The consumer reads weekly_chart_list itself.
ReadChartList ==
  LET r == read_weekly_chart_list(heap, slot[ChartGroup]["weekly_chart_list"])
  IN  /\ ~seen.read
      /\ heap' = r.heap
      /\ slot' = [slot EXCEPT ![ChartGroup]["weekly_chart_list"] = r.slot]
      /\ reads' = [reads EXCEPT ![ChartGroup]["weekly_chart_list"] = @ + 1]
      /\ calls' = [calls EXCEPT ![ChartGroup]["weekly_chart_list"] =
                     IF r.ran THEN @ + 1 ELSE @]
      /\ seen' = [read |-> TRUE, items |-> r.heap[r.val.v].items,
                  after |-> nfetched]
      /\ UNCHANGED <<fails, last, muts, n_charts, wcl, produced, chartFetches>>

(***************************************************************************)
(* The specifications.                                                     *)
(***************************************************************************)
restVars == <<topVars, groupVars, concVars, chartVars>>

RestIdle == TopIdle /\ GroupInit /\ ConcInit /\ ChartIdle

vars == <<cacheVars, pageVars, asyncVars, authVars, restVars>>

CacheSpecInit == CacheInit /\ PageIdle /\ AsyncInit /\ AuthInit /\ RestIdle

CacheNext ==
  \/ \E ob \in Instances, a \in Attrs, shape \in GetterShapes :
       Read(ob, a, shape) /\ UNCHANGED <<restVars, pageVars, asyncVars, authVars>>
  \/ \E addr \in 1..Len(heap) :
       Mutate(addr) /\ UNCHANGED <<restVars, pageVars, asyncVars, authVars>>

SpecCache == CacheSpecInit /\ [][CacheNext]_vars

PageSpecInit == PageInit /\ CacheInit /\ AsyncInit /\ AuthInit /\ RestIdle

DepaginateNext ==
  \/ Call /\ UNCHANGED <<restVars, cacheVars, asyncVars, authVars>>
  \/ DepaginateDemand /\ UNCHANGED <<restVars, cacheVars, asyncVars, authVars>>

SpecDepaginate == PageSpecInit /\ [][DepaginateNext]_vars

MembersNext ==
  \/ Call /\ UNCHANGED <<restVars, cacheVars, asyncVars, authVars>>
  \/ MembersDemand /\ UNCHANGED <<restVars, cacheVars, asyncVars, authVars>>

SpecMembers == PageSpecInit /\ [][MembersNext]_vars

AsyncSpecInit == AsyncInit /\ CacheInit /\ PageIdle /\ AuthInit /\ RestIdle

AsyncNext ==
  \/ \E c \in Calls, in \in CallInputs, kind \in FuncOutcomes :
       SyncCall(c, in, kind) /\ UNCHANGED <<restVars, cacheVars, pageVars, authVars>>
  \/ \E c \in Calls, in \in CallInputs :
       AsyncCall(c, in) /\ UNCHANGED <<restVars, cacheVars, pageVars, authVars>>
  \/ \E c \in Calls : AsyncReturn(c) /\ UNCHANGED <<restVars, cacheVars, pageVars, authVars>>
  \/ \E c \in Calls, kind \in FuncOutcomes :
       WorkerRun(c, kind) /\ UNCHANGED <<restVars, cacheVars, pageVars, authVars>>
  \/ \E c \in Calls : WorkerCallback(c) /\ UNCHANGED <<restVars, cacheVars, pageVars, authVars>>

SpecAsync == AsyncSpecInit /\ [][AsyncNext]_vars

AuthSpecInit == AuthInit /\ CacheInit /\ PageIdle /\ AsyncInit /\ RestIdle

AuthNext ==
  \E self \in Callers, args \in AuthArgs, fo \in AuthFuncOutcomes :
    AuthCall(self, args, fo) /\ UNCHANGED <<restVars, cacheVars, pageVars, asyncVars>>

SpecAuth == AuthSpecInit /\ [][AuthNext]_vars

oldVars == <<cacheVars, pageVars, asyncVars, authVars>>

OldIdle == CacheInit /\ PageIdle /\ AsyncInit /\ AuthInit

TopSpecInit == TopInit /\ OldIdle /\ GroupInit /\ ConcInit /\ ChartIdle

TopNext == TopRead /\ UNCHANGED <<oldVars, groupVars, concVars, chartVars>>

SpecTop == TopSpecInit /\ [][TopNext]_vars

GroupSpecInit == GroupInit /\ OldIdle /\ TopIdle /\ ConcInit /\ ChartIdle

GroupNext ==
  \/ \E api \in ApiArgs, name \in Names :
       init(api, name) /\ UNCHANGED <<oldVars, topVars, concVars, chartVars>>
  \/ HashGroup /\ UNCHANGED <<oldVars, topVars, concVars, chartVars>>
  \/ \E kwds \in Kwds : HashFunc(kwds) /\ UNCHANGED <<oldVars, topVars, concVars, chartVars>>

SpecGroup == GroupSpecInit /\ [][GroupNext]_vars

ConcSpecInit == ConcInit /\ OldIdle /\ TopIdle /\ GroupInit /\ ChartIdle

ConcNext ==
  \/ \E t \in Threads, a \in Attrs :
       Line48(t, a)
         /\ UNCHANGED <<pageVars, asyncVars, authVars, topVars, groupVars,
                        chartVars>>
  \/ \E t \in Threads, shape \in GetterShapes :
       Line50(t, shape)
         /\ UNCHANGED <<pageVars, asyncVars, authVars, topVars, groupVars,
                        chartVars>>
  \/ \E t \in Threads :
       Line51(t)
         /\ UNCHANGED <<pageVars, asyncVars, authVars, topVars, groupVars,
                        chartVars>>
  \/ \E t \in Threads :
       Line52(t)
         /\ UNCHANGED <<pageVars, asyncVars, authVars, topVars, groupVars,
                        chartVars>>

SpecCacheConc == ConcSpecInit /\ [][ConcNext]_vars

ChartSpecInit == ChartInit /\ OldIdle /\ TopIdle /\ GroupInit /\ ConcInit

ChartNext ==
  \/ \E kind \in Kinds :
       Build(kind)
         /\ UNCHANGED <<pageVars, asyncVars, authVars, topVars, groupVars,
                        concVars>>
  \/ \E kind \in Kinds :
       ChartDemand(kind)
         /\ UNCHANGED <<pageVars, asyncVars, authVars, topVars, groupVars,
                        concVars>>
  \/ ReadChartList
       /\ UNCHANGED <<pageVars, asyncVars, authVars, topVars, groupVars,
                      concVars>>

SpecCharts == ChartSpecInit /\ [][ChartNext]_vars

(***************************************************************************)
(* cached_property: the claims.                                            *)
(***************************************************************************)
\* the value a reference stands for, with everything reachable from it
RECURSIVE DeepVal(_, _, _)
DeepVal(h, val, depth) ==
  IF ~IsRef(val) \/ depth = 0 THEN <<val>>
  ELSE <<"obj", [i \in 1..Len(h[val.v].items) |->
                   DeepVal(h, h[val.v].items[i], depth - 1)]>>

\* every object reachable from the value supports copying
Copyable(h, val) == \A addr \in Reach(h, val, MaxDepth) : h[addr].copy = "ok"

\* C1 (as claimed): whatever the getter returns, None included, after N >= 1
\* reads of an attribute whose getter never failed the getter was invoked
\* exactly once.
C1_GetterInvokedOnce ==
  \A ob \in Instances, a \in Attrs :
    (reads[ob][a] >= 1 /\ fails[ob][a] = 0) => calls[ob][a] = 1

\* C2: a failure of the getter propagates to the reader and leaves the slot
\* as it was, unset; the next read of that attribute invokes the getter
\* again; no slot ever holds a failure.
C2_NoCacheOnFailure ==
  [][\A ob \in Instances, a \in Attrs :
       LET readStep == reads'[ob][a] = reads[ob][a] + 1
           getterFailed == fails'[ob][a] = fails[ob][a] + 1
       IN  /\ (readStep /\ getterFailed) =>
                /\ IsRaise(last'.out)
                /\ last'.out = last'.got
                /\ slot'[ob][a] = slot[ob][a]
                /\ getattr(slot'[ob][a]) = None
           /\ (readStep /\ calls[ob][a] = fails[ob][a]) =>
                calls'[ob][a] = calls[ob][a] + 1
           /\ (calls'[ob][a] = fails'[ob][a]) => slot'[ob][a] = Unset
           /\ ~IsRaise(slot'[ob][a])]_vars

\* C2's case: the getter failed on the first read and the second read
\* invoked it again, this time caching a value.
C2_Witness ==
  \E ob \in Instances, a \in Attrs :
    fails[ob][a] = 1 /\ calls[ob][a] = 2 /\ IsRef(slot[ob][a])

\* C3 (as claimed): once a copyable value is cached, nothing a reader does to
\* a value it was returned, or to anything reachable from it, changes the
\* cached value or anything reachable from the cached value.
C3_ReadersCannotChangeCache ==
  [][\A ob \in Instances, a \in Attrs :
       (IsRef(slot[ob][a]) /\ Copyable(heap, slot[ob][a])) =>
         /\ slot'[ob][a] = slot[ob][a]
         /\ DeepVal(heap', slot'[ob][a], MaxDepth)
              = DeepVal(heap, slot[ob][a], MaxDepth)]_vars

(***************************************************************************)
(* depaginate and Group.members: the claims.                               *)
(***************************************************************************)
\* the elements of pages from..to, in page order
RECURSIVE Concat(_, _)
Concat(from, to) ==
  IF from > to THEN <<>> ELSE Elems(from) \o Concat(from + 1, to)

\* the elements of the pages of a fetch log, in the log's order
RECURSIVE ConcatLog(_)
ConcatLog(fl) ==
  IF fl = <<>> THEN <<>> ELSE Elems(Head(fl)) \o ConcatLog(Tail(fl))

IsPrefix(s, t) == Len(s) <= Len(t) /\ SubSeq(t, 1, Len(s)) = s

\* C4: a fully consumed depaginated sequence is E_1 ++ E_2 ++ ... ++ E_T, T
\* the total page 1 reported: every element of every page once, pages in
\* increasing order, a page's elements in the fetcher's order.  (Page 1 is
\* always part of it: with T = 0 the sequence is E_1.)
C4_AllPagesInOrder ==
  gen.pc = "done" => lst = Elems(1) \o Concat(2, T1)

\* C4's case: three non-empty pages consumed to the end, the later pages
\* reporting another total than the first.
C4_Witness ==
  /\ gen.pc = "done"
  /\ T1 = 3 /\ T2 # T1
  /\ PageLen[1] = 2 /\ PageLen[2] = 2 /\ PageLen[3] = 1
  /\ Len(lst) = 5

\* C5: the call itself fetches nothing and page 1 is fetched by the first
\* demand; a page is fetched only once every element of all the pages
\* fetched before it has reached the consumer, and never by the demand that
\* delivers an element of an earlier page: the element a demand delivers
\* belongs to the page fetched last.  So the demand of element 0 alone, page
\* 1 holding it, fetches page 1 and nothing else.
C5_Lazy ==
  /\ outcome = "none" => fetched = <<>>
  /\ fetched # <<>> =>
       /\ fetched[1] = 1
       /\ IsPrefix(ConcatLog(SubSeq(fetched, 1, Len(fetched) - 1)), lst)
  /\ outcome = "element" => lst[Len(lst)][1] = fetched[Len(fetched)]
  /\ (outcome = "element" /\ Len(lst) = 1 /\ PageLen[1] >= 1) =>
       fetched = <<1>>

\* C5's case: of a three-page result only element 0 was demanded, and only
\* page 1 has been fetched.
C5_Witness ==
  /\ T1 = 3 /\ PageLen[1] = 2 /\ PageLen[2] = 1
  /\ outcome = "element" /\ Len(lst) = 1
  /\ fetched = <<1>>

\* C6 (as claimed): the fully consumed members sequence is the users of page
\* 1, then page 2, ..., then page T, each page fetched and emitted once.
C6_MembersEachPageOnce ==
  gen.pc = "done" =>
    /\ lst = Elems(1) \o Concat(2, T1)
    /\ \A i, j \in 1..Len(fetched) : fetched[i] = fetched[j] => i = j

(***************************************************************************)
(* async_callback: the claims.                                             *)
(***************************************************************************)
\* the call was made with a callback: a function as the keyword argument,
\* or, with no keyword argument callback, a function among the positional
\* arguments
WithCallback(in) ==
  \/ Callable(in.kw)
  \/ in.kw = "absent" /\ \E i \in 1..Len(in.args) : Callable(in.args[i])

\* the call was made without any callback
WithoutCallback(in) ==
  /\ ~Callable(in.kw)
  /\ \A i \in 1..Len(in.args) : ~Callable(in.args[i])

\* C7 (as claimed): once the worker of a dispatched call has ended, whatever
\* the operation did (returned, raised any kind of exception), the callback
\* has been invoked exactly once, with what the operation gave.
C7_CallbackExactlyOnce ==
  \A c \in Calls :
    wpc[c] \in {"done", "died"} => (Len(opOut[c]) = 1 /\ cblog[c] = opOut[c])

\* C8: a call made with a callback returns None to its caller and never
\* raises there; the wrapper's return does not wait for the worker (it can
\* be taken whatever the worker has done so far); and the operation is
\* invoked by the worker only.
C8_ReturnsWithoutWaiting ==
  \A c \in Calls :
    (cpc[c] # "idle" /\ WithCallback(input[c])) =>
      /\ cpc[c] \in {"spawned", "returned"}
      /\ wpc[c] # "none"
      /\ cpc[c] = "returned" => ret[c] = NoValue
      /\ cpc[c] = "spawned" => ENABLED AsyncReturn(c)
      /\ \A i \in 1..Len(ranOn[c]) : ranOn[c][i] = "worker"

\* C8's case: the caller has its return while the operation has not started
\* on the worker, and another call's caller has it after the operation
\* failed there.
C8_Witness ==
  \E c, d \in Calls :
    /\ cpc[c] = "returned" /\ wpc[c] = "ready" /\ ranOn[c] = <<>>
    /\ cpc[d] = "returned" /\ wpc[d] = "done"
    /\ cblog[d] = <<Out("Exception", d)>>

\* C9: a call made without a callback invokes the operation exactly once,
\* in the caller, with the caller's arguments; the caller gets its value
\* returned or its exception raised, unchanged; no worker is started and no
\* callback is invoked.
C9_SynchronousWithoutCallback ==
  \A c \in Calls :
    (cpc[c] # "idle" /\ WithoutCallback(input[c])) =>
      /\ ranOn[c] = <<"caller">>
      /\ Len(opOut[c]) = 1
      /\ ret[c] = opOut[c][1]
      /\ cpc[c] = (IF opOut[c][1][1] = "value" THEN "returned" ELSE "raised")
      /\ fargs[c] = input[c].args
      /\ wpc[c] = "none"
      /\ cblog[c] = <<>>

\* C9's case: a call with a keyword argument callback that is not callable
\* raised the operation's exception in the caller, while another call is
\* running on a worker.
C9_Witness ==
  \E c, d \in Calls :
    /\ input[c].kw = "x" /\ cpc[c] = "raised"
    /\ ret[c] = Out("BaseException", c)
    /\ wpc[d] = "ran"

(***************************************************************************)
(* authenticate: the claims.                                               *)
(***************************************************************************)
\* The caller's session: the first credential source that applies, in the
\* order User, user, _subject, _api; "absent" if none does.
Session(self) ==
  IF self.isUser THEN (IF self.authenticated THEN "yes" ELSE "no")
  ELSE IF self.user # "absent" THEN self.user
  ELSE IF self.subject \in {"no", "yes"} THEN self.subject
  ELSE IF self.api \in {"no", "yes"} THEN self.api
  ELSE "absent"

\* C10: whatever the caller's shape, if its session is not authenticated the
\* call raises the gate's AuthenticationFailedError and the wrapped
\* operation is not invoked; if it is authenticated the operation is invoked
\* exactly once, with the caller's arguments, and the value it returns is
\* returned.
C10_AuthGate ==
  a_pc = "done" =>
    /\ Session(a_self) = "no" =>
         /\ a_out.kind = "raise"
         /\ a_out.val = "AuthenticationFailedError"
         /\ a_out.by = "gate"
         /\ a_funcCalls = <<>>
    /\ Session(a_self) = "yes" =>
         /\ Len(a_funcCalls) = 1
         /\ a_funcCalls[1].args = a_args
         /\ a_funcCalls[1].out = "value" => a_out = func_result("value")

\* C10's case: a caller that holds an unauthenticated user, and an Api that
\* would give an authenticated one, was denied.
C10_Witness ==
  /\ a_pc = "done"
  /\ ~a_self.isUser /\ a_self.user = "no" /\ a_self.api = "yes"
  /\ a_args = <<"a", "b">>
  /\ a_out = denied("self.user.name")

(***************************************************************************)
(* The further claims on cached_property, depaginate, authenticate and     *)
(* async_callback.                                                         *)
(***************************************************************************)
\* C11 (as claimed): whenever the cached value does not support copying,
\* whatever exception the copy raises, the read returns the cached value
\* itself and does not fail.
C11_UncopyableReturnedByReference ==
  \A ob \in Instances, a \in Attrs :
    (/\ last.ob = ob /\ last.a = a
     /\ IsRef(slot[ob][a])
     /\ heap[slot[ob][a].v].copy # "ok") => last.out = slot[ob][a]

Max(m, n) == IF m >= n THEN m ELSE n

\* C13: the failing fetch of page k surfaces in the demand that first needs
\* an element of page k: it is the last fetch made, the pages fetched are
\* 1..k, every element of the pages before k has reached the consumer, and a
\* sequence that fetched the failing page does not go on.
C13_FailureAtPointOfNeed ==
  /\ outcome = "raised" =>
       /\ failPage # 0
       /\ gen.pc = "raised"
       /\ fetched = [i \in 1..failPage |-> i]
       /\ lst = ConcatLog(SubSeq(fetched, 1, Len(fetched) - 1))
  /\ (\E i \in 1..Len(fetched) : fetched[i] = failPage) => outcome = "raised"

\* C13's case: the fetch of page 3 failed after the elements of pages 1 and
\* 2 were delivered.
C13_Witness ==
  /\ outcome = "raised" /\ failPage = 3
  /\ PageLen[1] = 2 /\ PageLen[2] = 1
  /\ Len(lst) = 3

\* C16: the total T reported by page 1 alone decides the fetches: a fully
\* consumed sequence made max(1, T) fetches, the first without a page
\* argument, then page = 2, 3, ..., T once each in this order; what later
\* pages report as total changes neither the fetches nor the elements.
C16_FirstTotalDecides ==
  gen.pc = "done" =>
    /\ Len(fetched) = Max(1, T1)
    /\ \A i \in 1..Len(fetched) : fetched[i] = i
    /\ kwargs_page = (IF T1 >= 2 THEN T1 ELSE 0)
    /\ lst = ConcatLog([i \in 1..Max(1, T1) |-> i])

\* C16's case: page 1 reported 2 pages, page 2 reported 3, and the sequence
\* ended after page 2.
C16_Witness ==
  /\ gen.pc = "done"
  /\ T1 = 2 /\ T2 = 3
  /\ PageLen[2] = 1 /\ PageLen[3] = 1
  /\ fetched = <<1, 2>>

\* C15 (as claimed): whenever the gate permits the call and the wrapped
\* operation fails, the caller gets that very failure, whatever the caller's
\* shape and the failure's kind.
C15_FailuresNotMasked ==
  (/\ a_pc = "done"
   /\ Session(a_self) = "yes"
   /\ Len(a_funcCalls) = 1
   /\ a_funcCalls[1].out # "value") => a_out = func_result(a_funcCalls[1].out)

\* the credential source the gate consults, and the name it reports
FirstSource(self) ==
  IF self.isUser THEN "self.name"
  ELSE IF self.user # "absent" THEN "self.user.name"
  ELSE IF self.subject \in {"no", "yes"} THEN "self._subject.name"
  ELSE IF self.api \in {"no", "yes"} THEN "api"
  ELSE "none"

\* C18: the gate consults one credential source, the first that applies in
\* the order User, user, _subject, _api.  If that source is not authenticated
\* the call is denied in its name, whatever a later source would give, and
\* get_authenticated_user is called only if the _api source is the one
\* consulted.
C18_FirstSourceDecides ==
  a_pc = "done" =>
    /\ a_gau = (IF FirstSource(a_self) = "api" THEN 1 ELSE 0)
    /\ Len(a_funcCalls) = (IF Session(a_self) = "yes" THEN 1 ELSE 0)
    /\ Session(a_self) = "no" =>
         a_out = denied(IF FirstSource(a_self) = "api" THEN "None"
                        ELSE FirstSource(a_self))

\* C18's case: an unauthenticated User that holds an authenticated user and
\* an Api with an authenticated session was denied, get_authenticated_user
\* not called.
C18_Witness ==
  /\ a_pc = "done"
  /\ a_self.isUser /\ ~a_self.authenticated
  /\ a_self.user = "yes" /\ a_self.subject = "yes" /\ a_self.api = "yes"
  /\ a_out = denied("self.name")
  /\ a_gau = 0

\* the positional arguments without the callback that activates the
\* asynchronous mode: the keyword argument callback is not among them; a
\* positional callback is, if it is the one used
WithoutActivatingCallback(in) ==
  IF in.kw = "absent" /\ first_callable(in.args) # 0
  THEN remove(in.args, first_callable(in.args))
  ELSE in.args

\* C19 (as claimed): the wrapped operation is invoked with the caller's
\* arguments minus the one callback that activates the asynchronous mode,
\* however the callback is passed.
C19_OnlyTheCallbackRemoved ==
  \A c \in Calls :
    ranOn[c] # <<>> => fargs[c] = WithoutActivatingCallback(input[c])

\* C17 (as claimed): the property returns the first element of the list
\* whenever the list is not empty, whatever that element is, and None for
\* the empty list.
C17_FirstElementOrNone ==
  top_pc = "done" =>
    top_result = (IF Len(top_list) = 0 THEN None ELSE top_list[1])

\* C12 (as claimed): a key derivation for a group without a name fails with
\* InvalidParametersError, for _hash_func called without a name as for
\* hash() of a Group whose name is None; no key is returned.
C12_NamelessNeverKeyed ==
  /\ (h_op = "__hash__" /\ g_name = PyNone) => h_out = InvalidParametersError
  /\ (h_op = "_hash_func" /\ ~h_kwds.has) => h_out = InvalidParametersError

\* C14 (as claimed): when several threads read the same unset attribute of
\* the same instance, under every interleaving the getter is invoked at most
\* once for that attribute (the getters here return a value: none of them
\* returned None or failed).
C14_GetterOnceUnderConcurrency ==
  \A a \in Attrs :
    (\A t \in Threads : t_a[t] = a => t_got[t].t \in {"unset", "atom", "ref"})
      => calls[SharedInstance][a] <= 1

\* C20: for a weekly_chart_list of n entries, the i-th chart produced (from
\* i = 1) is the chart of entry n + 1 - i, that is the entries in reverse
\* order; the charts fetched are those produced, each once and none before
\* its element is demanded; the cached weekly_chart_list keeps its content
\* and order, as a later read shows.
C20_ReverseLazyCharts ==
  LET entries == [k \in 1..n_charts |-> Atom(k)]
      cached == slot[ChartGroup]["weekly_chart_list"]
  IN  /\ \A kind \in Kinds :
           /\ Len(produced[kind]) <= n_charts
           /\ \A i \in 1..Len(produced[kind]) :
                produced[kind][i] =
                  get_weekly_chart(kind, Atom(n_charts + 1 - i))
           /\ chartFetches[kind] =
                [i \in 1..Len(produced[kind]) |-> n_charts + 1 - i]
           /\ wcl[kind] = Unset => chartFetches[kind] = <<>>
      /\ IsRef(cached) => heap[cached.v].items = entries
      /\ seen.read => seen.items = entries

\* C20's case: of 3 entries the album charts were all produced and a track
\* chart too, and weekly_chart_list was read after that.
C20_Witness ==
  /\ n_charts = 3
  /\ Len(produced["album"]) = 3
  /\ Len(produced["track"]) = 1
  /\ wcl["artist"] # Unset /\ produced["artist"] = <<>>
  /\ seen.read /\ seen.after = 4

====
